---- MODULE Spec2Model ----
(***************************************************************************)
(* Model of the two front ends of the Krishna agent (src/app.py,           *)
(* src/gradio_app.py) and of the response normalizer they carry:           *)
(* _extract_text and _extract_search_used.                                 *)
(*                                                                         *)
(* Python strings are sequences of one-character strings.  Python values   *)
(* are records tagged by the field k: none, str, int, list, dict, obj.     *)
(* A dict is an ordered sequence of key/value entries with distinct keys;  *)
(* an obj carries its attributes the same way, plus the string that        *)
(* str() gives for it (its __str__ belongs to the agent runtime).          *)
(***************************************************************************)
EXTENDS Integers, Sequences, FiniteSets, TLC

(***************************************************************************)
(* Bounds of the model.                                                    *)
(***************************************************************************)
MaxParts == 2
MaxFields == 2
MaxChunks == 2
NumRequests == 2

(***************************************************************************)
(* Characters and string primitives.                                       *)
(***************************************************************************)
NL == "\n"
SP == " "
SQ == "'"
DQ == "\""
BSL == "\\"

Whitespace == {SP, NL}

DQ3 == <<DQ, DQ, DQ>>
TEXTEQ == <<"t", "e", "x", "t", "=">>
SEP == <<NL, NL>>

RECURSIVE LStrip(_)
LStrip(s) ==
    IF s = <<>> THEN <<>>
    ELSE IF Head(s) \in Whitespace THEN LStrip(Tail(s)) ELSE s

RECURSIVE RStrip(_)
RStrip(s) ==
    IF s = <<>> THEN <<>>
    ELSE IF s[Len(s)] \in Whitespace THEN RStrip(SubSeq(s, 1, Len(s) - 1)) ELSE s

\* str.strip()
Strip(s) == RStrip(LStrip(s))

\* sep.join(xs)
RECURSIVE Join(_, _)
Join(sep, xs) ==
    IF xs = <<>> THEN <<>>
    ELSE IF Len(xs) = 1 THEN xs[1]
    ELSE xs[1] \o sep \o Join(sep, Tail(xs))

\* [f(x) for x in xs]
RECURSIVE MapStrip(_)
MapStrip(xs) == IF xs = <<>> THEN <<>> ELSE <<Strip(Head(xs))>> \o MapStrip(Tail(xs))

(***************************************************************************)
(* Python values.                                                          *)
(***************************************************************************)
NoneV == [k |-> "none"]
StrV(s) == [k |-> "str", s |-> s]
IntV(n) == [k |-> "int", n |-> n]
ListV(xs) == [k |-> "list", xs |-> xs]
DictV(m) == [k |-> "dict", m |-> m]
ObjV(a, r) == [k |-> "obj", m |-> a, repr |-> r]
Entry(key, val) == [key |-> key, val |-> val]

HasKey(m, key) == \E i \in 1..Len(m) : m[i].key = key
Lookup(m, key) == m[CHOOSE i \in 1..Len(m) : m[i].key = key].val

\* getattr(v, name, None): only an obj carries the attributes probed here
GetAttr(v, name) ==
    IF v.k = "obj" /\ HasKey(v.m, name) THEN Lookup(v.m, name) ELSE NoneV

\* isinstance(v, dict)
IsDict(v) == v.k = "dict"

\* key in d
DictHas(d, key) == HasKey(d.m, key)

\* d[key] for a key that is present
DictItem(d, key) == Lookup(d.m, key)

\* d.get(key, default)
DictGet(d, key, default) == IF HasKey(d.m, key) THEN Lookup(d.m, key) ELSE default

\* bool(v)
Truthy(v) ==
    CASE v.k = "none" -> FALSE
      [] v.k = "str"  -> v.s # <<>>
      [] v.k = "int"  -> v.n # 0
      [] v.k = "list" -> v.xs # <<>>
      [] v.k = "dict" -> v.m # <<>>
      [] OTHER        -> TRUE

\* for x in v: the elements, or a TypeError
Iterable(v) == v.k \in {"list", "str", "dict"}
Elements(v) ==
    CASE v.k = "list" -> v.xs
      [] v.k = "str"  -> [i \in 1..Len(v.s) |-> StrV(<<v.s[i]>>)]
      [] v.k = "dict" -> [i \in 1..Len(v.m) |-> StrV(v.m[i].key)]
      [] OTHER        -> <<>>

Digit(d) == <<"0", "1", "2", "3", "4", "5", "6", "7", "8", "9">>[d + 1]

RECURSIVE Digits(_)
Digits(n) == IF n < 10 THEN <<Digit(n)>> ELSE Digits(n \div 10) \o <<Digit(n % 10)>>

IntRepr(n) == IF n < 0 THEN <<"-">> \o Digits(0 - n) ELSE Digits(n)

Contains(s, c) == \E i \in 1..Len(s) : s[i] = c

\* repr of a str: single quotes unless the text holds ' and no "
QuoteOf(s) == IF Contains(s, SQ) /\ ~Contains(s, DQ) THEN DQ ELSE SQ

EscapeChar(c, q) ==
    CASE c = BSL -> <<BSL, BSL>>
      [] c = NL  -> <<BSL, "n">>
      [] c = q   -> <<BSL, q>>
      [] OTHER   -> <<c>>

RECURSIVE Escape(_, _)
Escape(s, q) == IF s = <<>> THEN <<>> ELSE EscapeChar(Head(s), q) \o Escape(Tail(s), q)

StrRepr(s) == <<QuoteOf(s)>> \o Escape(s, QuoteOf(s)) \o <<QuoteOf(s)>>

\* repr(v); a key of a dict is a str
RECURSIVE PyRepr(_)
RECURSIVE ReprItems(_)
RECURSIVE ReprEntries(_)
PyRepr(v) ==
    CASE v.k = "none" -> <<"N", "o", "n", "e">>
      [] v.k = "str"  -> StrRepr(v.s)
      [] v.k = "int"  -> IntRepr(v.n)
      [] v.k = "list" -> <<"[">> \o Join(<<",", SP>>, ReprItems(v.xs)) \o <<"]">>
      [] v.k = "dict" -> <<"{">> \o Join(<<",", SP>>, ReprEntries(v.m)) \o <<"}">>
      [] OTHER        -> v.repr
ReprItems(xs) == IF xs = <<>> THEN <<>> ELSE <<PyRepr(Head(xs))>> \o ReprItems(Tail(xs))
ReprEntries(m) ==
    IF m = <<>> THEN <<>>
    ELSE <<StrRepr(Head(m).key) \o <<":", SP>> \o PyRepr(Head(m).val)>> \o ReprEntries(Tail(m))

\* str(v)
PyStr(v) == IF v.k = "str" THEN v.s ELSE PyRepr(v)

(***************************************************************************)
(* The names the normalizer probes.                                        *)
(***************************************************************************)
K_text == <<"t", "e", "x", "t">>
K_content == <<"c", "o", "n", "t", "e", "n", "t">>
K_parts == <<"p", "a", "r", "t", "s">>
K_grounding_metadata == <<"g", "m">>
K_grounding_chunks == <<"g", "c">>
K_web == <<"w", "e", "b">>
K_uri == <<"u", "r", "i">>
K_web_search_queries == <<"w", "s", "q">>

(***************************************************************************)
(* Outcome of a block of code: it returned a value, it raised, or control  *)
(* fell through its end.                                                   *)
(***************************************************************************)
Return(v) == [st |-> "return", v |-> v]
Raise == [st |-> "raise"]
Fall == [st |-> "fall"]

\* o1 ; o2
Then(o1, o2) == IF o1.st = "fall" THEN o2 ELSE o1

\* the block without its try/except: the exception leaves the function
ExceptPropagate(o) == o

\* try: o  except Exception: pass
ExceptPass(o) == IF o.st = "raise" THEN Fall ELSE o

(***************************************************************************)
(* re.findall(r"text=(?:\"\"\"|\')([\s\S]+?)(?:\"\"\"|\')", s)              *)
(***************************************************************************)
IsAt(s, i, lit) ==
    /\ i + Len(lit) - 1 <= Len(s)
    /\ \A j \in 1..Len(lit) : s[i + j - 1] = lit[j]

\* the delimiter with a plain double quote accepted as well
DelimLenAnyQuote(s, i) ==
    IF IsAt(s, i, DQ3) THEN 3
    ELSE IF IsAt(s, i, <<SQ>>) \/ IsAt(s, i, <<DQ>>) THEN 1 ELSE 0

\* length of the delimiter (?:\"\"\"|\') at position i, 0 when there is none
DelimLen(s, i) ==
    IF IsAt(s, i, DQ3) THEN 3 ELSE IF IsAt(s, i, <<SQ>>) THEN 1 ELSE 0

\* the lazy group ([\s\S]+?) starting at c: positions where a closing
\* delimiter follows at least one character
Closers(s, c) == {j \in (c + 1)..Len(s) : DelimLen(s, j) > 0}

FirstCloser(s, c) == CHOOSE j \in Closers(s, c) : \A j2 \in Closers(s, c) : j <= j2

\* does the pattern match starting exactly at position i
MatchesAt(s, i) ==
    /\ IsAt(s, i, TEXTEQ)
    /\ DelimLen(s, i + 5) > 0
    /\ Closers(s, i + 5 + DelimLen(s, i + 5)) # {}

RECURSIVE FindAllFrom(_, _)
FindAllFrom(s, i) ==
    IF i > Len(s) THEN <<>>
    ELSE IF MatchesAt(s, i)
         THEN LET c == i + 5 + DelimLen(s, i + 5)
                  j == FirstCloser(s, c)
              IN  <<SubSeq(s, c, j - 1)>> \o FindAllFrom(s, j + DelimLen(s, j))
         ELSE FindAllFrom(s, i + 1)

FindAll(s) == FindAllFrom(s, 1)

(***************************************************************************)
(* src/app.py: _extract_text                                               *)
(***************************************************************************)
\* lines 117-122: the fragments the loop over the parts collects
RECURSIVE CollectPartTexts(_)
CollectPartTexts(ps) ==
    IF ps = <<>> THEN <<>>
    ELSE LET p == Head(ps)
             t == GetAttr(p, K_text)
         IN  (IF Truthy(t) THEN <<PyStr(t)>>
              ELSE IF IsDict(p) /\ DictHas(p, K_text) THEN <<PyStr(DictItem(p, K_text))>>
              ELSE <<>>) \o CollectPartTexts(Tail(ps))

\* line 124
JoinParts(texts) == Strip(Join(SEP, texts))

\* lines 112-124: google.genai Event -> Content -> parts[*].text
StructuredPath(r) ==
    LET content == GetAttr(r, K_content)
        parts == GetAttr(content, K_parts)
    IN  IF content # NoneV /\ Truthy(parts)
        THEN IF ~Iterable(parts) THEN Raise
             ELSE LET texts == CollectPartTexts(Elements(parts))
                  IN  IF texts # <<>> THEN Return(JoinParts(texts)) ELSE Fall
        ELSE Fall

\* the direct text returned without .strip()
DirectTextUnstripped(r) ==
    LET t == GetAttr(r, K_text)
    IN  IF Truthy(t) THEN Return(PyStr(t)) ELSE Fall

\* lines 126-128: direct .text
DirectText(r) ==
    LET t == GetAttr(r, K_text)
    IN  IF Truthy(t) THEN Return(Strip(PyStr(t))) ELSE Fall

\* line 136: the list comprehension over the parts of a dict content
RECURSIVE DictPartTexts(_)
DictPartTexts(ps) ==
    IF ps = <<>> THEN <<>>
    ELSE LET p == Head(ps)
         IN  (IF IsDict(p) /\ Truthy(DictGet(p, K_text, NoneV))
              THEN <<Strip(PyStr(DictGet(p, K_text, NoneV)))>>
              ELSE <<>>) \o DictPartTexts(Tail(ps))

\* lines 130-138: dict style
DictStyle(r) ==
    IF IsDict(r)
    THEN IF DictHas(r, K_text) THEN Return(Strip(PyStr(DictItem(r, K_text))))
         ELSE LET c == DictGet(r, K_content, NoneV)
              IN  IF IsDict(c)
                  THEN LET parts == DictGet(c, K_parts, ListV(<<>>))
                       IN  IF ~Iterable(parts) THEN Raise
                           ELSE LET texts == DictPartTexts(Elements(parts))
                                IN  IF texts # <<>> THEN Return(Join(SEP, texts)) ELSE Fall
                  ELSE Fall
    ELSE Fall

\* lines 110-140: the three structured strategies share one try block
TryStructured(r) == ExceptPass(Then(StructuredPath(r), Then(DirectText(r), DictStyle(r))))

\* lines 142-150: regex fallback from the string representation
RegexFallback(r) ==
    LET s == PyStr(r)
        matches == FindAll(s)
    IN  IF matches # <<>> THEN Return(Join(SEP, MapStrip(matches))) ELSE Return(s)

\* lines 109-150
_extract_text(r) == Then(TryStructured(r), RegexFallback(r))

(***************************************************************************)
(* src/app.py: _extract_search_used                                        *)
(***************************************************************************)
\* lines 160-161
ChunkHasUri(ch) ==
    LET web == GetAttr(ch, K_web)
    IN  web # NoneV /\ Truthy(GetAttr(web, K_uri))

\* lines 155-162
GroundingChunks(r) ==
    LET gm == GetAttr(r, K_grounding_metadata)
        chunks == GetAttr(gm, K_grounding_chunks)
    IN  IF gm # NoneV /\ Truthy(chunks)
        THEN IF Iterable(chunks)
             THEN IF \E i \in 1..Len(Elements(chunks)) : ChunkHasUri(Elements(chunks)[i])
                  THEN Return(TRUE) ELSE Fall
             ELSE Raise
        ELSE Fall

\* lines 164-166: alternative signal
SearchQueries(r) ==
    IF Truthy(GetAttr(r, K_web_search_queries)) THEN Return(TRUE) ELSE Fall

\* lines 153-169
_extract_search_used(r) ==
    Then(ExceptPass(Then(GroundingChunks(r), SearchQueries(r))), Return(FALSE))

(***************************************************************************)
(* src/gradio_app.py: _extract_text                                        *)
(***************************************************************************)
\* lines 64-69
RECURSIVE gradio_CollectPartTexts(_)
gradio_CollectPartTexts(ps) ==
    IF ps = <<>> THEN <<>>
    ELSE LET p == Head(ps)
             t == GetAttr(p, K_text)
         IN  (IF Truthy(t) THEN <<PyStr(t)>>
              ELSE IF IsDict(p) /\ DictHas(p, K_text) THEN <<PyStr(DictItem(p, K_text))>>
              ELSE <<>>) \o gradio_CollectPartTexts(Tail(ps))

\* the join without the final .strip()
gradio_JoinPartsUnstripped(texts) == Join(SEP, texts)

\* line 71
gradio_JoinParts(texts) == Strip(Join(SEP, texts))

\* lines 59-71
gradio_StructuredPath(r) ==
    LET content == GetAttr(r, K_content)
        parts == GetAttr(content, K_parts)
    IN  IF content # NoneV /\ Truthy(parts)
        THEN IF ~Iterable(parts) THEN Raise
             ELSE LET texts == gradio_CollectPartTexts(Elements(parts))
                  IN  IF texts # <<>> THEN Return(gradio_JoinParts(texts)) ELSE Fall
        ELSE Fall

\* lines 72-74
gradio_DirectText(r) ==
    LET t == GetAttr(r, K_text)
    IN  IF Truthy(t) THEN Return(Strip(PyStr(t))) ELSE Fall

\* line 81
RECURSIVE gradio_DictPartTexts(_)
gradio_DictPartTexts(ps) ==
    IF ps = <<>> THEN <<>>
    ELSE LET p == Head(ps)
         IN  (IF IsDict(p) /\ Truthy(DictGet(p, K_text, NoneV))
              THEN <<Strip(PyStr(DictGet(p, K_text, NoneV)))>>
              ELSE <<>>) \o gradio_DictPartTexts(Tail(ps))

\* lines 75-83
gradio_DictStyle(r) ==
    IF IsDict(r)
    THEN IF DictHas(r, K_text) THEN Return(Strip(PyStr(DictItem(r, K_text))))
         ELSE LET c == DictGet(r, K_content, NoneV)
              IN  IF IsDict(c)
                  THEN LET parts == DictGet(c, K_parts, ListV(<<>>))
                       IN  IF ~Iterable(parts) THEN Raise
                           ELSE LET texts == gradio_DictPartTexts(Elements(parts))
                                IN  IF texts # <<>> THEN Return(Join(SEP, texts)) ELSE Fall
                  ELSE Fall
    ELSE Fall

\* lines 58-85
gradio_TryStructured(r) ==
    ExceptPass(Then(gradio_StructuredPath(r), Then(gradio_DirectText(r), gradio_DictStyle(r))))

\* lines 86-94
gradio_RegexFallback(r) ==
    LET s == PyStr(r)
        matches == FindAll(s)
    IN  IF matches # <<>> THEN Return(Join(SEP, MapStrip(matches))) ELSE Return(s)

\* lines 56-94
gradio_extract_text(r) == Then(gradio_TryStructured(r), gradio_RegexFallback(r))

(***************************************************************************)
(* The responses the runner may hand back.  The runtime decides the shape, *)
(* so every field is optional and may hold a value of the wrong type.      *)
(***************************************************************************)
SeqsUpTo(S, n) == UNION {[1..m -> S] : m \in 0..n}

Absent == [k |-> "absent"]
Attr(key, v) == IF v = Absent THEN <<>> ELSE <<Entry(key, v)>>

\* the pieces of an object's textual representation: a text= field with
\* its opening delimiter, body and closing delimiter, or other characters
Delims == {<<SQ>>, <<DQ>>, DQ3}
Bodies == {<<SP, "a">>}
Field(o, b, c) == [o |-> o, b |-> b, c |-> c, junk |-> FALSE]
Junk == [o |-> <<>>, b |-> <<"x">>, c |-> <<>>, junk |-> TRUE]
FieldDescs ==
    {Field(o, b, c) : o \in Delims, b \in Bodies, c \in Delims}
        \cup {Junk, Field(<<SQ>>, <<>>, <<SQ>>), Field(<<SQ>>, <<"b", SP>>, DQ3)}

RenderField(d) == IF d.junk THEN d.b ELSE TEXTEQ \o d.o \o d.b \o d.c

RECURSIVE Render(_)
Render(fs) == IF fs = <<>> THEN <<>> ELSE RenderField(Head(fs)) \o Render(Tail(fs))

Texts == {<<>>, <<SP>>, <<"a", SP>>, <<SP, "b">>}
TextVals == {NoneV} \cup {StrV(t) : t \in Texts}
DictTextVals == {Absent, NoneV, StrV(<<>>), StrV(<<"a", SP>>)}

PartVals ==
    {ObjV(Attr(K_text, t), <<"P">>) : t \in TextVals \cup {Absent}}
        \cup {DictV(Attr(K_text, t)) : t \in DictTextVals}

PartsVals == {Absent, NoneV, IntV(5)} \cup {ListV(ps) : ps \in SeqsUpTo(PartVals, MaxParts)}

ContentVals == {Absent} \cup {ObjV(Attr(K_parts, ps), <<"C">>) : ps \in PartsVals}

StructuredInputs ==
    {[resp |-> ObjV(Attr(K_content, c) \o Attr(K_text, t), Render(<<Junk>>)),
      fields |-> <<Junk>>] : c \in ContentVals, t \in TextVals \cup {Absent}}

ReprAttrs ==
    {<<>>,
     Attr(K_text, StrV(<<>>)),
     Attr(K_content, ObjV(Attr(K_parts, IntV(5)), <<"C">>)) \o Attr(K_text, StrV(<<SP, "a">>))}

ReprInputs ==
    {[resp |-> ObjV(a, Render(fs)), fields |-> fs] :
        a \in ReprAttrs, fs \in SeqsUpTo(FieldDescs, MaxFields)}

DictPartVals ==
    {DictV(Attr(K_text, t)) : t \in DictTextVals \cup {StrV(<<SP, "b">>)}}
        \cup {ObjV(Attr(K_text, StrV(<<"a">>)), <<"P">>)}

DictContentVals ==
    {Absent, NoneV, IntV(5)}
        \cup {DictV(Attr(K_parts, ps)) :
                ps \in {Absent, NoneV, IntV(5)}
                    \cup {ListV(xs) : xs \in SeqsUpTo(DictPartVals, MaxParts)}}

DictInputs ==
    {[resp |-> DictV(Attr(K_text, t) \o Attr(K_content, c)), fields |-> <<>>] :
        t \in TextVals \cup {Absent}, c \in DictContentVals}

UriVals == {NoneV, StrV(<<>>), StrV(<<"u">>)}
ChunkVals ==
    {ObjV(Attr(K_web, ObjV(Attr(K_uri, u), <<"W">>)), <<"G">>) : u \in UriVals}
        \cup {ObjV(<<>>, <<"G">>), ObjV(Attr(K_web, NoneV), <<"G">>)}
ChunksVals == {Absent, NoneV, IntV(5)} \cup {ListV(cs) : cs \in SeqsUpTo(ChunkVals, MaxChunks)}
MetadataVals == {Absent} \cup {ObjV(Attr(K_grounding_chunks, cs), <<"M">>) : cs \in ChunksVals}
QueriesVals == {Absent, NoneV, ListV(<<>>), ListV(<<StrV(<<"q">>)>>)}

SearchInputs ==
    {[resp |-> ObjV(Attr(K_grounding_metadata, gm) \o Attr(K_web_search_queries, qs)
                        \o Attr(K_text, StrV(<<"a">>)), Render(<<Junk>>)),
      fields |-> <<Junk>>] : gm \in MetadataVals, qs \in QueriesVals}

\* {"content": {"parts": [{"text": "a"}, {"text": "b"}]}}
TwoPartDict ==
    DictV(Attr(K_content, DictV(Attr(K_parts,
        ListV(<<DictV(Attr(K_text, StrV(<<"a">>))), DictV(Attr(K_text, StrV(<<"b">>)))>>)))))

PlainInputs ==
    {[resp |-> v, fields |-> <<>>] :
        v \in {NoneV, IntV(5), StrV(<<"a">>), ListV(<<>>), TwoPartDict}}

Inputs == StructuredInputs \cup ReprInputs \cup DictInputs \cup SearchInputs \cup PlainInputs

\* the responses the runner hands to the front ends
SampleResponses ==
    {ObjV(Attr(K_content, ObjV(Attr(K_parts,
              ListV(<<ObjV(Attr(K_text, StrV(<<"a">>)), <<"P">>),
                      ObjV(Attr(K_text, StrV(<<"b">>)), <<"P">>)>>)), <<"C">>)),
          <<"x">>),
     ObjV(Attr(K_web_search_queries, ListV(<<StrV(<<"q">>)>>))
              \o Attr(K_text, StrV(<<SP, "c">>)), <<"x">>),
     DictV(Attr(K_text, StrV(<<"d", SP>>))),
     ObjV(Attr(K_content, ObjV(Attr(K_parts, IntV(5)), <<"C">>)), <<"x">>)}

PromptVals == {StrV(<<>>), StrV(<<SP>>), StrV(<<SP, "q">>)}

Requests == 1..NumRequests

(***************************************************************************)
(* State.                                                                  *)
(*   resp, fields, step, text, gradio_text, used_search: one application   *)
(*     of the normalizer to one response.                                  *)
(*   pc, frontend, prompt, response, result, calls: the requests the two   *)
(*     front ends handle; calls counts, per request, the invocations of    *)
(*     the runner and of the two normalizer functions.                     *)
(***************************************************************************)
VARIABLES resp, fields, step, text, gradio_text, used_search,
          pc, frontend, prompt, response, result, calls

normVars == <<resp, fields, step, text, gradio_text, used_search>>
reqVars == <<pc, frontend, prompt, response, result, calls>>
vars == <<resp, fields, step, text, gradio_text, used_search,
          pc, frontend, prompt, response, result, calls>>

NoCalls == [runner |-> 0, extract_text |-> 0, extract_search_used |-> 0]
NoResult == [kind |-> "none"]

InitRequests ==
    /\ pc = [r \in Requests |-> "idle"]
    /\ frontend = [r \in Requests |-> "none"]
    /\ prompt = [r \in Requests |-> NoneV]
    /\ response = [r \in Requests |-> NoneV]
    /\ result = [r \in Requests |-> NoResult]
    /\ calls = [r \in Requests |-> NoCalls]

InitNormalizer ==
    /\ resp = NoneV
    /\ fields = <<>>
    /\ step = "start"
    /\ text = Fall
    /\ gradio_text = Fall
    /\ used_search = Fall

(***************************************************************************)
(* The front ends.                                                         *)
(***************************************************************************)
\* (prompt or "") without .strip()
PromptUnstripped(p) == PyStr(IF Truthy(p) THEN p ELSE StrV(<<>>))

\* (prompt or "").strip()
StripPrompt(p) == Strip(PyStr(IF Truthy(p) THEN p ELSE StrV(<<>>)))

HttpError(status) == [kind |-> "http", status |-> status]
QueryOut(t, u) == [kind |-> "http", status |-> 200, text |-> t, search_used |-> u]
Returned(t) == [kind |-> "value", text |-> t]
Propagated == [kind |-> "exception"]

PromptCannotBeEmpty == <<"P", "r", "o", "m", "p", "t", SP, "c", "a", "n", "n", "o", "t",
                         SP, "b", "e", SP, "e", "m", "p", "t", "y">>

Called(c, what) == [c EXCEPT ![what] = @ + 1]

\* src/app.py lines 96-100: query up to the await of runner.run_debug
Query(r, p) ==
    /\ pc[r] = "idle"
    /\ frontend' = [frontend EXCEPT ![r] = "app"]
    /\ prompt' = [prompt EXCEPT ![r] = p]
    /\ IF StripPrompt(p) = <<>>
       THEN /\ pc' = [pc EXCEPT ![r] = "done"]
            /\ result' = [result EXCEPT ![r] = HttpError(400)]
            /\ calls' = calls
       ELSE /\ pc' = [pc EXCEPT ![r] = "awaiting"]
            /\ result' = result
            /\ calls' = [calls EXCEPT ![r] = Called(@, "runner")]
    /\ UNCHANGED <<response, normVars>>

\* src/gradio_app.py lines 49-52: ask_agent up to the await
AskAgent(r, p) ==
    /\ pc[r] = "idle"
    /\ frontend' = [frontend EXCEPT ![r] = "gradio"]
    /\ prompt' = [prompt EXCEPT ![r] = p]
    /\ IF StripPrompt(p) = <<>>
       THEN /\ pc' = [pc EXCEPT ![r] = "done"]
            /\ result' = [result EXCEPT ![r] = Returned(PromptCannotBeEmpty)]
            /\ calls' = calls
       ELSE /\ pc' = [pc EXCEPT ![r] = "awaiting"]
            /\ result' = result
            /\ calls' = [calls EXCEPT ![r] = Called(@, "runner")]
    /\ UNCHANGED <<response, normVars>>

\* the runner completes the awaited call with a response
RunnerReturns(r, v) ==
    /\ pc[r] = "awaiting"
    /\ pc' = [pc EXCEPT ![r] = "returned"]
    /\ response' = [response EXCEPT ![r] = v]
    /\ UNCHANGED <<frontend, prompt, result, calls, normVars>>

\* the runner completes the awaited call with an exception
RunnerRaises(r) ==
    /\ pc[r] = "awaiting"
    /\ pc' = [pc EXCEPT ![r] = "raised"]
    /\ UNCHANGED <<frontend, prompt, response, result, calls, normVars>>

\* the response kept in one place for all requests: that of the request
\* whose runner call completed and is not yet handled
SharedResponse(r) == response[CHOOSE q \in Requests : pc[q] = "returned"]

\* the response a request's handler normalizes: its own local variable
ResponseOf(r) == response[r]

\* src/app.py lines 104-106; an exception out of either call leaves the handler
Normalize(r) ==
    LET t == _extract_text(ResponseOf(r))
        u == _extract_search_used(ResponseOf(r))
    IN  IF t.st = "return" /\ u.st = "return" THEN QueryOut(t.v, u.v) ELSE HttpError(500)

\* src/app.py lines 100-106: query from the await on
QueryResume(r) ==
    /\ frontend[r] = "app"
    /\ pc[r] \in {"returned", "raised"}
    /\ pc' = [pc EXCEPT ![r] = "done"]
    /\ IF pc[r] = "raised"
       THEN /\ result' = [result EXCEPT ![r] = HttpError(500)]
            /\ calls' = calls
       ELSE /\ result' = [result EXCEPT ![r] = Normalize(r)]
            /\ calls' = [calls EXCEPT ![r] =
                            IF _extract_text(ResponseOf(r)).st = "return"
                            THEN Called(Called(@, "extract_text"), "extract_search_used")
                            ELSE Called(@, "extract_text")]
    /\ UNCHANGED <<frontend, prompt, response, normVars>>

\* src/gradio_app.py line 53
GradioNormalize(r) ==
    LET t == gradio_extract_text(ResponseOf(r))
    IN  IF t.st = "return" THEN Returned(t.v) ELSE Propagated

\* src/gradio_app.py lines 52-53: ask_agent from the await on
AskAgentResume(r) ==
    /\ frontend[r] = "gradio"
    /\ pc[r] \in {"returned", "raised"}
    /\ pc' = [pc EXCEPT ![r] = "done"]
    /\ IF pc[r] = "raised"
       THEN /\ result' = [result EXCEPT ![r] = Propagated]
            /\ calls' = calls
       ELSE /\ result' = [result EXCEPT ![r] = GradioNormalize(r)]
            /\ calls' = [calls EXCEPT ![r] = Called(@, "extract_text")]
    /\ UNCHANGED <<frontend, prompt, response, normVars>>

Init == InitRequests /\ InitNormalizer

Next ==
    \/ \E r \in Requests, p \in PromptVals : Query(r, p)
    \/ \E r \in Requests, p \in PromptVals \cup {NoneV} : AskAgent(r, p)
    \/ \E r \in Requests, v \in SampleResponses : RunnerReturns(r, v)
    \/ \E r \in Requests : RunnerRaises(r)
    \/ \E r \in Requests : QueryResume(r)
    \/ \E r \in Requests : AskAgentResume(r)

Spec == Init /\ [][Next]_vars

(***************************************************************************)
(* The normalizer applied to one response: _extract_text of app.py, then   *)
(* _extract_search_used (app.py lines 104-105), and _extract_text of       *)
(* gradio_app.py on the same response.                                     *)
(***************************************************************************)
InitNorm ==
    /\ InitRequests
    /\ \E in \in Inputs : resp = in.resp /\ fields = in.fields
    /\ step = "start"
    /\ text = Fall
    /\ gradio_text = Fall
    /\ used_search = Fall

ExtractText ==
    /\ step = "start"
    /\ text' = _extract_text(resp)
    /\ step' = "text"
    /\ UNCHANGED <<resp, fields, gradio_text, used_search, reqVars>>

ExtractSearchUsed ==
    /\ step = "text"
    /\ used_search' = _extract_search_used(resp)
    /\ step' = "search"
    /\ UNCHANGED <<resp, fields, text, gradio_text, reqVars>>

GradioExtractText ==
    /\ step = "search"
    /\ gradio_text' = gradio_extract_text(resp)
    /\ step' = "done"
    /\ UNCHANGED <<resp, fields, text, used_search, reqVars>>

NextNorm == ExtractText \/ ExtractSearchUsed \/ GradioExtractText

SpecNorm == InitNorm /\ [][NextNorm]_vars

(***************************************************************************)
(* What the specification says of a response, stated without the           *)
(* normalizer's own operators.                                             *)
(***************************************************************************)
Applied == step # "start"
SearchApplied == step \in {"search", "done"}

IsString(v) == v \in Seq(STRING)
NonBlank(s) == \E i \in 1..Len(s) : s[i] \notin Whitespace

\* the pattern text=<delimiter><one character or more><delimiter> occurs in s,
\* a delimiter being """ or '
HasTextMatch(s) ==
    \E i \in 1..Len(s), o \in {<<SQ>>, DQ3} :
        /\ IsAt(s, i, TEXTEQ \o o)
        /\ \E j \in (i + 5 + Len(o) + 1)..Len(s) : IsAt(s, j, <<SQ>>) \/ IsAt(s, j, DQ3)

HasAttr(v, name) == v.k = "obj" /\ \E i \in 1..Len(v.m) : v.m[i].key = name

NoRecognizedField(v) ==
    CASE v.k = "obj"  -> \A name \in {K_content, K_text, K_grounding_metadata,
                                       K_web_search_queries} : ~HasAttr(v, name)
      [] v.k = "dict" -> \A i \in 1..Len(v.m) : v.m[i].key \notin {K_text, K_content}
      [] OTHER        -> TRUE

\* the text field of a part, by attribute or by key
PartText(p) ==
    IF p.k \in {"obj", "dict"} /\ \E i \in 1..Len(p.m) : p.m[i].key = K_text
    THEN p.m[CHOOSE i \in 1..Len(p.m) : p.m[i].key = K_text].val
    ELSE NoneV

IsText(v) == v.k = "str" /\ v.s # <<>>

\* [t1..tN]: the non-empty text fields of the parts, in order
RECURSIVE NonEmptyTexts(_)
NonEmptyTexts(ps) ==
    IF ps = <<>> THEN <<>>
    ELSE (IF IsText(PartText(Head(ps))) THEN <<PartText(Head(ps)).s>> ELSE <<>>)
             \o NonEmptyTexts(Tail(ps))

\* the parts sequence a response exposes under content.parts, <<>> if none
PartsOf(v) ==
    LET c == IF v.k \in {"obj", "dict"} /\ \E i \in 1..Len(v.m) : v.m[i].key = K_content
             THEN v.m[CHOOSE i \in 1..Len(v.m) : v.m[i].key = K_content].val ELSE NoneV
        ps == IF c.k \in {"obj", "dict"} /\ c.k = v.k /\ \E i \in 1..Len(c.m) : c.m[i].key = K_parts
              THEN c.m[CHOOSE i \in 1..Len(c.m) : c.m[i].key = K_parts].val ELSE NoneV
    IN  IF ps.k = "list" THEN ps.xs ELSE <<>>

\* the parts value is there, truthy, and cannot be iterated
PartsMalformed(v) ==
    /\ v.k = "obj" /\ HasAttr(v, K_content)
    /\ HasAttr(GetAttr(v, K_content), K_parts)
    /\ GetAttr(GetAttr(v, K_content), K_parts).k = "int"
    /\ GetAttr(GetAttr(v, K_content), K_parts).n # 0

\* the top-level text of a response, by attribute or by key
TopText(v) == PartText(v)

(***************************************************************************)
(* C1: for a response of any shape, malformed field values included,       *)
(* _extract_text returns a string and _extract_search_used returns a       *)
(* boolean, and neither raises; a response with no recognized field whose  *)
(* textual representation holds no text= match yields str(resp) unchanged  *)
(* and false.                                                              *)
(***************************************************************************)
C1_NeverRaises ==
    /\ Applied =>
          /\ text.st = "return" /\ IsString(text.v)
          /\ NoRecognizedField(resp) /\ ~HasTextMatch(PyStr(resp)) => text.v = PyStr(resp)
    /\ SearchApplied =>
          /\ used_search.st = "return" /\ used_search.v \in BOOLEAN
          /\ NoRecognizedField(resp) => used_search.v = FALSE

C1_Witness ==
    /\ step = "done"
    /\ PartsMalformed(resp)
    /\ text.st = "return"
    /\ used_search = Return(FALSE)

(***************************************************************************)
(* C2: for a response exposing content.parts whose parts carry the         *)
(* non-empty texts [t1..tN], N >= 1, _extract_text returns                 *)
(* trim(t1) + "\n\n" + ... + "\n\n" + trim(tN).                            *)
(***************************************************************************)
CarriesNoText(p) ==
    IF p.k = "dict" THEN \A i \in 1..Len(p.m) : p.m[i].key # K_text
    ELSE PartText(p) \in {NoneV, StrV(<<>>)}

TextOrNoText(ps) == \A i \in 1..Len(ps) : IsText(PartText(ps[i])) \/ CarriesNoText(ps[i])

C2_EachFragmentTrimmed ==
    Applied /\ resp.k = "obj" /\ NonEmptyTexts(PartsOf(resp)) # <<>> /\ TextOrNoText(PartsOf(resp))
        => text = Return(Join(SEP, MapStrip(NonEmptyTexts(PartsOf(resp)))))

(***************************************************************************)
(* C3: whenever some recognized location of the response holds a text      *)
(* that is not empty, _extract_text returns a non-empty string.            *)
(***************************************************************************)
HasExtractableText(v) ==
    \/ IsText(TopText(v)) /\ NonBlank(TopText(v).s)
    \/ \E i \in 1..Len(PartsOf(v)) :
          IsText(PartText(PartsOf(v)[i])) /\ NonBlank(PartText(PartsOf(v)[i]).s)

C3_NonEmptyWheneverTextExists ==
    Applied /\ HasExtractableText(resp) => text.st = "return" /\ text.v # <<>>

(***************************************************************************)
(* C5: a failure inside the structured content path falls through to the   *)
(* next strategy: with content.parts truthy and not iterable and a         *)
(* non-empty top-level text s, _extract_text returns trim(s).              *)
(***************************************************************************)
C5_FailureFallsToNextStrategy ==
    Applied /\ PartsMalformed(resp) /\ IsText(GetAttr(resp, K_text))
        => text = Return(Strip(GetAttr(resp, K_text).s))

(***************************************************************************)
(* C6: _extract_search_used returns true exactly when a grounding chunk    *)
(* has a web reference with a non-empty URI or the response exposes a      *)
(* non-empty collection of web-search queries; the queries are consulted   *)
(* also when probing the chunks fails.                                     *)
(***************************************************************************)
ChunksOf(v) ==
    LET cs == GetAttr(GetAttr(v, K_grounding_metadata), K_grounding_chunks)
    IN  IF cs.k = "list" THEN cs.xs ELSE <<>>

SomeChunkHasUri(v) ==
    \E i \in 1..Len(ChunksOf(v)) :
        IsText(GetAttr(GetAttr(ChunksOf(v)[i], K_web), K_uri))

HasQueries(v) ==
    GetAttr(v, K_web_search_queries).k = "list" /\ GetAttr(v, K_web_search_queries).xs # <<>>

C6_SearchUsedIff ==
    SearchApplied => used_search = Return(SomeChunkHasUri(resp) \/ HasQueries(resp))

(***************************************************************************)
(* C4: for a response with none of the structured shapes whose textual     *)
(* representation holds text= fields delimited by double quotes, as in     *)
(* text="hello", _extract_text returns the bodies of the fields, each      *)
(* trimmed, joined by "\n\n" in order of occurrence.                       *)
(***************************************************************************)
NoStructure(v) == v.k = "obj" /\ ~HasAttr(v, K_content) /\ ~HasAttr(v, K_text)

DoubleQuoted(d) == ~d.junk /\ d.o = <<DQ>> /\ d.c = <<DQ>> /\ d.b # <<>>

RECURSIVE BodiesOf(_)
BodiesOf(fs) == IF fs = <<>> THEN <<>> ELSE <<Head(fs).b>> \o BodiesOf(Tail(fs))

AllDoubleQuoted(fs) == fs # <<>> /\ \A i \in 1..Len(fs) : DoubleQuoted(fs[i])

C4_DoubleQuotedField ==
    Applied /\ NoStructure(resp) /\ PyStr(resp) = Render(fields) /\ AllDoubleQuoted(fields)
        => text = Return(Join(SEP, MapStrip(BodiesOf(fields))))

(***************************************************************************)
(* C4 as amended: the fields the fallback recognizes are those opened and  *)
(* closed by a single quote or a triple double quote, as in text='hello'   *)
(* or text="""hello"""; it returns their bodies, each trimmed, joined by   *)
(* "\n\n" in order of occurrence.  A field opened by a plain double quote, *)
(* as in text="hello", is not matched; when nothing matches the textual    *)
(* representation is returned unmodified.                                  *)
(***************************************************************************)
WellFormed(d) == ~d.junk /\ d.o \in {<<SQ>>, DQ3} /\ d.c \in {<<SQ>>, DQ3} /\ d.b # <<>>
Inert(d) == d.junk \/ d.o = <<DQ>>

RECURSIVE WellFormedBodies(_)
WellFormedBodies(fs) ==
    IF fs = <<>> THEN <<>>
    ELSE (IF WellFormed(Head(fs)) THEN <<Head(fs).b>> ELSE <<>>) \o WellFormedBodies(Tail(fs))

Recognizable(fs) == \A i \in 1..Len(fs) : WellFormed(fs[i]) \/ Inert(fs[i])

ExpectedFallback(fs) ==
    IF WellFormedBodies(fs) = <<>> THEN Render(fs)
    ELSE Join(SEP, MapStrip(WellFormedBodies(fs)))

C4_QuotedFields ==
    Applied /\ NoStructure(resp) /\ PyStr(resp) = Render(fields) /\ Recognizable(fields)
        => text = Return(ExpectedFallback(fields))

C4_Witness ==
    /\ Applied /\ NoStructure(resp)
    /\ Len(fields) = 2 /\ WellFormed(fields[1]) /\ WellFormed(fields[2])
    /\ fields[1].b # fields[2].b
    /\ text = Return(Strip(fields[1].b) \o SEP \o Strip(fields[2].b))

(***************************************************************************)
(* C7: for a response whose only text source is a top-level text s, as an  *)
(* attribute or as the key of a dict, _extract_text returns trim(s), for   *)
(* every string s, the empty one included.                                 *)
(***************************************************************************)
OnlyTopText(v) ==
    /\ v.k \in {"obj", "dict"}
    /\ \A i \in 1..Len(v.m) : v.m[i].key # K_content
    /\ TopText(v).k = "str"

C7_TopTextTrimmed ==
    Applied /\ OnlyTopText(resp) => text = Return(Strip(TopText(resp).s))

(***************************************************************************)
(* C7 as amended: a dict {"text": s} yields trim(s) for every string s; an *)
(* object whose only text source is the attribute text = s yields trim(s)  *)
(* for every non-empty s (the empty string for a whitespace-only s); for   *)
(* the empty s the attribute counts as absent and the result is that of    *)
(* the fallback over the textual representation.  The dict                 *)
(* {"content": {"parts": [{"text": "a"}, {"text": "b"}]}} yields "a\n\nb". *)
(***************************************************************************)
C7_TopTextTrimmedUnlessEmpty ==
    Applied =>
        /\ OnlyTopText(resp) /\ (resp.k = "dict" \/ TopText(resp).s # <<>>)
              => text = Return(Strip(TopText(resp).s))
        /\ OnlyTopText(resp) /\ resp.k = "obj" /\ TopText(resp).s = <<>>
              /\ PyStr(resp) = Render(fields) /\ Recognizable(fields)
              => text = Return(ExpectedFallback(fields))
        /\ resp = TwoPartDict => text = Return(<<"a", NL, NL, "b">>)

C7_Witness ==
    /\ Applied /\ resp.k = "obj" /\ OnlyTopText(resp)
    /\ TopText(resp).s = <<"a", SP>>
    /\ text = Return(<<"a">>)

(***************************************************************************)
(* C10: for every response, _extract_text of app.py and _extract_text of   *)
(* gradio_app.py return the same string.                                   *)
(***************************************************************************)
C10_FrontEndsAgree == step = "done" => gradio_text = text

C10_Witness ==
    /\ step = "done"
    /\ Len(NonEmptyTexts(PartsOf(resp))) = 2
    /\ text.st = "return" /\ Len(text.v) > 2
    /\ gradio_text = text

(***************************************************************************)
(* C8: in every handling of a request by either front end the runner is    *)
(* invoked only for a prompt that is non-empty after trimming, an empty    *)
(* prompt being rejected with HTTP 400 and nothing invoked; the normalizer *)
(* is invoked only after the runner returned; when the runner raises the   *)
(* request ends with HTTP 500 and the normalizer is not invoked.           *)
(***************************************************************************)
BlankPrompt(p) == p.k = "none" \/ (p.k = "str" /\ ~NonBlank(p.s))

NormalizerCalls(c) == c.extract_text + c.extract_search_used

GuardedInOrder(r) ==
    /\ calls'[r].runner > calls[r].runner => pc[r] = "idle" /\ ~BlankPrompt(prompt'[r])
    /\ pc[r] = "idle" /\ pc'[r] # "idle" /\ BlankPrompt(prompt'[r])
          => pc'[r] = "done" /\ calls'[r] = NoCalls
    /\ NormalizerCalls(calls'[r]) > NormalizerCalls(calls[r]) => pc[r] = "returned"
    /\ pc[r] = "raised" => calls'[r] = calls[r]

C8_GuardedWithHttpStatus ==
    [][\A r \in Requests :
          /\ GuardedInOrder(r)
          /\ pc[r] = "idle" /\ pc'[r] = "done" => result'[r] = HttpError(400)
          /\ pc[r] = "raised" /\ pc'[r] = "done" => result'[r] = HttpError(500)]_vars

(***************************************************************************)
(* C8 as amended: the guards hold in both front ends; the outcomes are     *)
(* those of each front end.  POST /query answers an empty prompt with HTTP *)
(* 400 and a runner failure with HTTP 500.  ask_agent returns the text     *)
(* "Prompt cannot be empty" as its ordinary result for an empty prompt,    *)
(* and lets the exception of the runner leave it uncaught.                 *)
(***************************************************************************)
C8_GuardedPerFrontEnd ==
    [][\A r \in Requests :
          /\ GuardedInOrder(r)
          /\ pc[r] = "idle" /\ pc'[r] = "done" =>
                result'[r] = IF frontend'[r] = "app" THEN HttpError(400)
                             ELSE Returned(PromptCannotBeEmpty)
          /\ pc[r] = "raised" /\ pc'[r] = "done" =>
                result'[r] = IF frontend[r] = "app" THEN HttpError(500) ELSE Propagated]_vars

C8_Witness ==
    \E r1, r2 \in Requests :
        /\ frontend[r1] = "gradio" /\ pc[r1] = "done" /\ prompt[r1] = StrV(<<SP>>)
        /\ calls[r1] = NoCalls /\ result[r1] = Returned(PromptCannotBeEmpty)
        /\ frontend[r2] = "app" /\ pc[r2] = "done" /\ calls[r2].runner = 1
        /\ NormalizerCalls(calls[r2]) = 0 /\ result[r2] = HttpError(500)

(***************************************************************************)
(* C9: the normalizer leaves the response it is given unchanged, and under *)
(* any interleaving of the requests each request's text and search_used    *)
(* are what the normalizer produces for that request's own response.       *)
(***************************************************************************)
OwnAnswer(r) ==
    IF frontend[r] = "app"
    THEN QueryOut(_extract_text(response[r]).v, _extract_search_used(response[r]).v)
    ELSE Returned(gradio_extract_text(response[r]).v)

====
